---- MODULE Spec2Model ----
(***************************************************************************)
(* HiveDesk HR onboarding backend: the role gate, the task lifecycle, the   *)
(* document upload path and the listings of backend/app/main.py, with      *)
(* the dependencies of backend/app/api/deps.py, the tokens of              *)
(* backend/app/core/security.py and the login and registration of          *)
(* backend/app/api/routers/auth.py.                                        *)
(*                                                                         *)
(* Text values that the code lower-cases (names, role strings, document    *)
(* types) are sequences of ASCII codes, so that str.lower() is computed.   *)
(* Identifiers (uuid primary keys) are opaque TLA+ strings.                *)
(***************************************************************************)
EXTENDS Integers, Sequences, FiniteSets, TLC

\* ------------------------------------------------------------------ bounds
MaxTime == 1
MaxAssignments == 2
MaxInflight == 2
MaxDocuments == 2
MaxHours == 1
MaxTokens == 2
MaxRegistrations == 2

\* ------------------------------------------------------------ text values
\* ASCII spellings used by the model
S_hr == <<104, 114>>
S_HR == <<72, 82>>
S_employee == <<101, 109, 112, 108, 111, 121, 101, 101>>
S_Employee == <<69, 109, 112, 108, 111, 121, 101, 101>>
S_admin == <<97, 100, 109, 105, 110>>
S_Jane == <<74, 97, 110, 101>>
S_jane == <<106, 97, 110, 101>>
S_JANE == <<74, 65, 78, 69>>
S_Bob == <<66, 111, 98>>
S_bob == <<98, 111, 98>>
S_John == <<74, 111, 104, 110>>
S_nobody == <<122, 122>>
S_aadhar == <<97, 97, 100, 104, 97, 114>>
S_AADHAR == <<65, 65, 68, 72, 65, 82>>
S_resume == <<114, 101, 115, 117, 109, 101>>
S_other == <<111, 116, 104, 101, 114>>
S_passport == <<112, 97, 115, 115, 112, 111, 114, 116>>
S_Resume == <<82, 101, 115, 117, 109, 101>>
S_aadhaar == <<97, 97, 100, 104, 97, 97, 114>>

\* str.lower() on ASCII text
lower(s) == [i \in 1..Len(s) |-> IF s[i] \in 65..90 THEN s[i] + 32 ELSE s[i]]

\* ------------------------------------------------------------------ enums
UserRole_HR == S_hr
UserRole_EMPLOYEE == S_employee
UserRole == {UserRole_HR, UserRole_EMPLOYEE}

TaskStatus_PENDING == "pending"
TaskStatus_COMPLETED == "completed"
TaskStatus == {TaskStatus_PENDING, TaskStatus_COMPLETED}

DocumentType == {S_aadhar, S_resume, S_other}

VerificationStatus_PENDING == "pending"
VerificationStatus == {"pending", "verified", "failed"}

\* Python's None, for an Optional column or form field (a value v is <<v>>)
None == <<>>

\* -------------------------------------------------------- authorization
\* deps.verify_user_access(name, role, current_user)
verify_user_access_no_hr_bypass(name, role, current_user) ==
    /\ current_user.role = UserRole_EMPLOYEE
    /\ lower(current_user.name) = lower(name)
    /\ current_user.role = lower(role)

verify_user_access_exact_name(name, role, current_user) ==
    IF current_user.role = UserRole_HR THEN TRUE
    ELSE IF current_user.role = UserRole_EMPLOYEE
         THEN current_user.name = name /\ current_user.role = lower(role)
         ELSE FALSE

verify_user_access(name, role, current_user) ==
    IF current_user.role = UserRole_HR THEN TRUE
    ELSE IF current_user.role = UserRole_EMPLOYEE
         THEN lower(current_user.name) = lower(name)
              /\ current_user.role = lower(role)
         ELSE FALSE

\* ------------------------------------------------------------------ state
VARIABLES
    users,        \* users table: id -> [name, email, role, is_active]
    tasks,        \* tasks table: set of task ids
    assignments,  \* employee_tasks table: id -> EmployeeTaskModel row
    documents,    \* documents table: id -> DocumentModel row
    files,        \* the uploads directory: path -> [complete, data]
    inflight,     \* assign_task requests between their SELECT and their commit
    training_modules,   \* training_modules table: id -> [is_active]
    employee_training,  \* employee_training table: set of progress rows
    now,          \* the clock read by datetime.utcnow(), in minutes
    tokens,       \* the access tokens issued so far, held by clients
    secret_key,   \* security.SECRET_KEY of the running process
    registering,  \* register requests between their SELECT and their commit
    last          \* the request handled last and the response it got

vars == <<users, tasks, assignments, documents, files, training_modules,
          employee_training, inflight, now, tokens, secret_key, registering, last>>

auth == <<tokens, secret_key, registering>>

db == <<users, tasks, assignments, documents, files, training_modules,
        employee_training>>

\* --------------------------------------------------------- request inputs
\* (name, role) pairs of the request path /{name}/{role}/...
PathClaims ==
    { <<S_JANE, S_Employee>>, <<S_bob, S_employee>>, <<S_John, S_hr>>,
      <<S_jane, S_HR>> }

EmployeeIdInputs == {"e1", "h1"}
TaskIdInputs == {101}
AssignmentIdInputs == 1..(MaxAssignments + 1)
DocumentTypeInputs == {S_AADHAR, S_passport}
FilenameInputs == {"cv.pdf"}
ContentInputs == {"bytesA", "bytesB"}
OptionalTaskIdInputs == {None}
\* how the byte-stream write of an upload and then the commit of its
\* metadata row end; the commit is not reached when the write fails
UploadOutcomes ==
    { <<"ok", "ok">>, <<"ok", "failed">>,
      <<"open_failed", "not reached">>, <<"write_failed", "not reached">> }

\* ------------------------------------------------------------ seed data
\* security.get_password_hash / verify_password: a bcrypt digest verifies
\* exactly the password it was made of
get_password_hash(password) == <<"bcrypt", password>>
verify_password(plain_password, hashed_password) ==
    hashed_password = get_password_hash(plain_password)

\* UserModel(name=..., email=..., password_hash=..., role=..., is_active=...)
UserModel(name, email, password_hash, role, is_active) ==
    [name |-> name, email |-> email, password_hash |-> password_hash,
     role |-> role, is_active |-> is_active]

\* create_sample_data.py: one HR user and the employees
SampleUsers ==
    [u \in {"h1", "e1", "e2"} |->
        CASE u = "h1" -> UserModel(S_John, "john.hr@company.com",
                                   get_password_hash("password123"),
                                   UserRole_HR, TRUE)
          [] u = "e1" -> UserModel(S_Jane, "jane.employee@company.com",
                                   get_password_hash("password123"),
                                   UserRole_EMPLOYEE, TRUE)
          [] u = "e2" -> UserModel(S_Bob, "bob.employee@company.com",
                                   get_password_hash("password123"),
                                   UserRole_EMPLOYEE, TRUE)]

\* security.py 8: SECRET_KEY = os.getenv("SECRET_KEY", "dev-secret-key")
SECRET_KEY_default == "dev-secret-key"

SampleTasks == {101}

\* column defaults of an employee_tasks row: pending, not completed
\* (assigned_at, which no operation reads back, is left out)
EmployeeTaskDefaults ==
    [status |-> TaskStatus_PENDING, completed_at |-> None]

\* EmployeeTaskModel(employee_id=..., task_id=..., assigned_by=...)
EmployeeTaskModel(employee_id, task_id, assigned_by) ==
    [employee_id |-> employee_id, task_id |-> task_id, assigned_by |-> assigned_by,
     status |-> EmployeeTaskDefaults.status,
     completed_at |-> EmployeeTaskDefaults.completed_at]

\* create_sample_data.py: every task assigned to every employee by the HR user
SampleAssignments ==
    [a \in 1..2 |-> EmployeeTaskModel(IF a = 1 THEN "e1" ELSE "e2", 101, "h1")]

\* create_sample_data.py 150-215: the training modules; one retired module
SampleTrainingModules ==
    [m \in {201, 202} |-> [is_active |-> (m = 201)]]

\* create_sample_data.py 227-234: EmployeeTrainingModel(employee_id, training_module_id)
EmployeeTrainingModel(employee_id, training_module_id) ==
    [employee_id |-> employee_id, training_module_id |-> training_module_id,
     status |-> "pending", progress_percentage |-> 0,
     started_at |-> None, completed_at |-> None]

SampleTraining ==
    {EmployeeTrainingModel(e, m) : e \in {"e1", "e2"}, m \in {201, 202}}

Empty == [x \in {} |-> None]

NoRequest ==
    [op |-> "none", caller |-> "none", gate |-> "skipped", status |-> 0,
     detail |-> "", args |-> <<>>, body |-> {}]

Response(op, caller, gate, status, detail, args, body) ==
    [op |-> op, caller |-> caller, gate |-> gate, status |-> status,
     detail |-> detail, args |-> args, body |-> body]

Init ==
    /\ users = SampleUsers
    /\ tasks = SampleTasks
    /\ \E seeded \in BOOLEAN :
          /\ assignments = IF seeded THEN SampleAssignments ELSE Empty
          /\ employee_training = IF seeded THEN SampleTraining ELSE {}
    /\ training_modules = SampleTrainingModules
    /\ documents = Empty
    /\ files = Empty
    /\ inflight = {}
    /\ now = 0
    /\ tokens = {}
    /\ secret_key = SECRET_KEY_default
    /\ registering = {}
    /\ last = NoRequest

\* ------------------------------------------------------------ dependencies
\* deps.get_current_user: the active user a valid token names
CurrentUsers == {u \in DOMAIN users : users[u].is_active}

\* deps.require_role(role).checker without the comparison of the caller's role
require_role_any(role, user) == TRUE

\* deps.require_role(role).checker
require_role(role, user) == user.role = role

Gate(name, role, caller) ==
    IF verify_user_access(name, role, users[caller]) THEN "allow" ELSE "deny"

\* "if not verify_user_access(name, role, current_user): raise HTTPException(403)"
AccessDenied_ignored(gate) == FALSE

AccessDenied(gate) == gate = "deny"

Forbidden(op, caller, gate, args) ==
    Response(op, caller, gate, 403, "Access denied", args, {})

\* the clock advances between requests
Tick ==
    /\ now < MaxTime
    /\ now' = now + 1
    /\ UNCHANGED <<auth, users, tasks, training_modules, employee_training, assignments, documents, files, inflight, last>>

\* ---------------------------------------------------------- assign_task
\* rows of the employee_tasks table for one (employee, task) pair
AssignmentsFor(asg, employee_id, task_id) ==
    {a \in DOMAIN asg : asg[a].employee_id = employee_id /\ asg[a].task_id = task_id}

\* the store's uniqueness constraint on employee_tasks (employee_id, task_id)
employee_tasks_unconstrained(asg, row) == TRUE

employee_tasks_unique(asg, row) ==
    AssignmentsFor(asg, row.employee_id, row.task_id) = {}

\* main.py 289-294: SELECT ... WHERE employee_id = ... AND task_id = ...
assign_task_existing_unchecked(asg, employee_id, task_id) == FALSE

assign_task_existing(asg, employee_id, task_id) ==
    AssignmentsFor(asg, employee_id, task_id) # {}

FreeSlot == CHOOSE n \in 1..MaxInflight : \A r \in inflight : r.slot # n

\* assign_task up to and including its existence check
AssignTaskCheck(caller, name, role, employee_id, task_id) ==
    LET args == <<employee_id, task_id>>
        gate == Gate(name, role, caller)
    IN  /\ IF ~require_role(UserRole_HR, users[caller])
           THEN /\ last' = Forbidden("assign_task", caller, "skipped", args)
                /\ UNCHANGED inflight
           ELSE IF AccessDenied(gate)
           THEN /\ last' = Forbidden("assign_task", caller, gate, args)
                /\ UNCHANGED inflight
           ELSE IF assign_task_existing(assignments, employee_id, task_id)
           THEN /\ last' = Response("assign_task", caller, gate, 400,
                                    "Task already assigned", args, {})
                /\ UNCHANGED inflight
           ELSE /\ Cardinality(inflight) < MaxInflight
                /\ Len(assignments) + Cardinality(inflight) < MaxAssignments
                /\ inflight' = inflight \cup
                        {[slot |-> FreeSlot, caller |-> caller,
                          employee_id |-> employee_id, task_id |-> task_id]}
                /\ last' = Response("assign_task", caller, gate, 0,
                                    "awaiting commit", args, {})
        /\ UNCHANGED <<auth, users, tasks, training_modules, employee_training, assignments, documents, files, now>>

\* assign_task from the construction of the row to the response
AssignTaskCommit(r) ==
    LET args == <<r.employee_id, r.task_id>>
        row == EmployeeTaskModel(r.employee_id, r.task_id, r.caller)
    IN  /\ inflight' = inflight \ {r}
        /\ IF employee_tasks_unique(assignments, row)
           THEN /\ assignments' = Append(assignments, row)
                /\ last' = Response("assign_task", r.caller, "allow", 200,
                                    "Task assigned successfully", args, {})
           ELSE \* IntegrityError out of session.commit()
                /\ UNCHANGED assignments
                /\ last' = Response("assign_task", r.caller, "allow", 500,
                                    "Internal Server Error", args, {})
        /\ UNCHANGED <<auth, users, tasks, training_modules, employee_training, documents, files, now>>

\* -------------------------------------------------------- complete_task
\* main.py 470-472: the row the request may complete
complete_task_any_caller(asg, assignment_id, caller) ==
    assignment_id \in DOMAIN asg

complete_task_found(asg, assignment_id, caller) ==
    assignment_id \in DOMAIN asg /\ asg[assignment_id].employee_id = caller

\* main.py 475-476: the update of the row
complete_task_toggle(row, t) ==
    IF row.status = TaskStatus_COMPLETED
    THEN [row EXCEPT !.status = TaskStatus_PENDING, !.completed_at = None]
    ELSE [row EXCEPT !.status = TaskStatus_COMPLETED, !.completed_at = <<t>>]

complete_task_status_only(row, t) ==
    [row EXCEPT !.status = TaskStatus_COMPLETED]

complete_task_update(row, t) ==
    [row EXCEPT !.status = TaskStatus_COMPLETED, !.completed_at = <<t>>]

\* main.py 457-481 with a handler that also retires the caller on success
CompleteTask_deactivating(caller, name, role, assignment_id) ==
    LET args == <<assignment_id>>
        gate == Gate(name, role, caller)
    IN  /\ IF AccessDenied(gate)
           THEN /\ last' = Forbidden("complete_task", caller, gate, args)
                /\ UNCHANGED <<assignments, users>>
           ELSE IF ~complete_task_found(assignments, assignment_id, caller)
           THEN /\ last' = Response("complete_task", caller, gate, 404,
                                    "Task assignment not found", args, {})
                /\ UNCHANGED <<assignments, users>>
           ELSE /\ assignments' =
                      [assignments EXCEPT ![assignment_id] =
                          complete_task_update(assignments[assignment_id], now)]
                /\ users' = [users EXCEPT ![caller].is_active = FALSE]
                /\ last' = Response("complete_task", caller, gate, 200,
                                    "Task marked as completed", args, {})
        /\ UNCHANGED <<auth, tasks, training_modules, employee_training, documents, files, inflight, now>>

CompleteTask(caller, name, role, assignment_id) ==
    LET args == <<assignment_id>>
        gate == Gate(name, role, caller)
    IN  /\ IF AccessDenied(gate)
           THEN /\ last' = Forbidden("complete_task", caller, gate, args)
                /\ UNCHANGED assignments
           ELSE IF ~complete_task_found(assignments, assignment_id, caller)
           THEN /\ last' = Response("complete_task", caller, gate, 404,
                                    "Task assignment not found", args, {})
                /\ UNCHANGED assignments
           ELSE /\ assignments' =
                      [assignments EXCEPT ![assignment_id] =
                          complete_task_update(assignments[assignment_id], now)]
                /\ last' = Response("complete_task", caller, gate, 200,
                                    "Task marked as completed", args, {})
        /\ UNCHANGED <<auth, users, tasks, training_modules, employee_training, documents, files, inflight, now>>

\* ------------------------------------------------------ upload_document
\* main.py 364-367: DocumentType(document_type.lower())
ValidDocumentType_exact(document_type) == document_type \in DocumentType

ValidDocumentType(document_type) == lower(document_type) \in DocumentType

\* main.py 371-372: UPLOAD_DIR / f"{current_user.id}_{doc_type.value}_{file.filename}"
upload_file_path(caller, doc_type, filename) == <<caller, doc_type, filename>>

\* column defaults of a documents row: verification pending, not verified
\* (uploaded_at, file_size and mime_type, which no operation reads back, are left out)
DocumentDefaults ==
    [verification_status |-> VerificationStatus_PENDING,
     verified_at |-> None, verified_by |-> None]

\* main.py 383-391: DocumentModel(employee_id=current_user.id, ...)
DocumentModel_self_verified(employee_id, doc_type, filename, file_path, task_id) ==
    [employee_id |-> employee_id, document_type |-> doc_type,
     original_filename |-> filename, file_path |-> file_path, task_id |-> task_id,
     verification_status |-> "verified",
     verified_at |-> DocumentDefaults.verified_at,
     verified_by |-> <<employee_id>>]

DocumentModel(employee_id, doc_type, filename, file_path, task_id) ==
    [employee_id |-> employee_id, document_type |-> doc_type,
     original_filename |-> filename, file_path |-> file_path, task_id |-> task_id,
     verification_status |-> DocumentDefaults.verification_status,
     verified_at |-> DocumentDefaults.verified_at,
     verified_by |-> DocumentDefaults.verified_by]

\* the uploads directory after open(file_path, 'wb') and the write: 'wb' truncates
\* an existing file on open, so a write that fails leaves a partial file behind
upload_write(fs, file_path, content, io) ==
    IF io = "open_failed" THEN fs
    ELSE [p \in DOMAIN fs \cup {file_path} |->
            IF p # file_path THEN fs[p]
            ELSE IF io = "ok" THEN [complete |-> TRUE, data |-> content]
                 ELSE [complete |-> FALSE, data |-> "partial"]]

UploadDocument(caller, name, role, document_type, filename, content, task_id, outcome) ==
    LET args == <<document_type, filename>>
        gate == Gate(name, role, caller)
        doc_type == lower(document_type)
        file_path == upload_file_path(caller, doc_type, filename)
        io == outcome[1]
        commit == outcome[2]
    IN  /\ IF AccessDenied(gate)
           THEN /\ last' = Forbidden("upload_document", caller, gate, args)
                /\ UNCHANGED <<documents, files>>
           ELSE IF ~ValidDocumentType(document_type)
           THEN /\ last' = Response("upload_document", caller, gate, 400,
                                    "Invalid document type", args, {})
                /\ UNCHANGED <<documents, files>>
           ELSE /\ files' = upload_write(files, file_path, content, io)
                /\ IF io # "ok"
                   THEN /\ last' = Response("upload_document", caller, gate, 500,
                                            "File upload failed", args, {})
                        /\ UNCHANGED documents
                   ELSE IF commit = "failed"
                   THEN \* session.commit() raises: no row, the bytes stay
                        /\ last' = Response("upload_document", caller, gate, 500,
                                            "Internal Server Error", args, {})
                        /\ UNCHANGED documents
                   ELSE /\ Len(documents) < MaxDocuments
                        /\ documents' = Append(documents,
                              DocumentModel(caller, doc_type, filename, file_path,
                                            task_id))
                        /\ last' = Response("upload_document", caller, gate, 200,
                                            "Document uploaded successfully",
                                            args, {Len(documents) + 1})
        /\ UNCHANGED <<auth, users, tasks, training_modules, employee_training, assignments, inflight, now>>

\* --------------------------------------------------------------- listings
\* main.py 403-454
GetTasks(caller, name, role) ==
    LET gate == Gate(name, role, caller)
    IN  /\ last' =
              IF AccessDenied(gate) THEN Forbidden("get_tasks", caller, gate, <<>>)
              ELSE IF lower(role) = S_hr
              THEN Response("get_tasks", caller, gate, 200, "tasks", <<>>,
                            {[id |-> t] : t \in tasks})
              ELSE Response("get_tasks", caller, gate, 200, "assignments", <<>>,
                            {[assignment_id |-> a,
                              task_id |-> assignments[a].task_id,
                              status |-> assignments[a].status,
                              completed_at |-> assignments[a].completed_at] :
                             a \in {x \in DOMAIN assignments :
                                      /\ assignments[x].employee_id = caller
                                      /\ assignments[x].task_id \in tasks}})
        /\ UNCHANGED <<auth, users, tasks, training_modules, employee_training, assignments, documents, files, inflight, now>>

\* main.py 323-332: the rows the listing selects
get_documents_select_by_name(docs, role, current_user_id) ==
    IF lower(role) = S_hr THEN DOMAIN docs
    ELSE {d \in DOMAIN docs :
            /\ docs[d].employee_id \in DOMAIN users
            /\ users[docs[d].employee_id].name = users[current_user_id].name}

get_documents_select(docs, role, current_user_id) ==
    IF lower(role) = S_hr THEN DOMAIN docs
    ELSE {d \in DOMAIN docs : docs[d].employee_id = current_user_id}

\* main.py 312-346
GetDocuments(caller, name, role) ==
    LET gate == Gate(name, role, caller)
        listed == get_documents_select(documents, role, caller)
    IN  /\ last' =
              IF AccessDenied(gate) THEN Forbidden("get_documents", caller, gate, <<>>)
              ELSE Response("get_documents", caller, gate, 200, "documents", <<>>,
                            {[id |-> d,
                              employee_id |-> documents[d].employee_id,
                              document_type |-> documents[d].document_type,
                              original_filename |-> documents[d].original_filename,
                              verification_status |-> documents[d].verification_status,
                              verified_at |-> documents[d].verified_at] : d \in listed})
        /\ UNCHANGED <<auth, users, tasks, training_modules, employee_training, assignments, documents, files, inflight, now>>

\* main.py 125-173
GetDashboard(caller, name, role) ==
    LET gate == Gate(name, role, caller)
        mine == {a \in DOMAIN assignments : assignments[a].employee_id = caller}
        done == {a \in mine : assignments[a].status = TaskStatus_COMPLETED}
        pending == {a \in mine : assignments[a].status = TaskStatus_PENDING}
    IN  /\ last' =
              IF AccessDenied(gate) THEN Forbidden("get_dashboard", caller, gate, <<>>)
              ELSE IF lower(role) = S_hr
              THEN Response("get_dashboard", caller, gate, 200, "hr", <<>>,
                     [total_employees |->
                          Cardinality({u \in DOMAIN users :
                                         users[u].role = UserRole_EMPLOYEE}),
                      pending_tasks |->
                          Cardinality({a \in DOMAIN assignments :
                                         assignments[a].status = TaskStatus_PENDING}),
                      pending_documents |->
                          Cardinality({d \in DOMAIN documents :
                                         documents[d].verification_status =
                                             VerificationStatus_PENDING})])
              ELSE IF lower(role) = S_employee
              THEN Response("get_dashboard", caller, gate, 200, "employee", <<>>,
                     [total_tasks |-> Cardinality(mine),
                      completed_tasks |-> Cardinality(done),
                      pending_tasks |-> Cardinality(pending)])
              ELSE Response("get_dashboard", caller, gate, 200, "null", <<>>, {})
        /\ UNCHANGED <<auth, users, tasks, training_modules, employee_training, assignments, documents, files, inflight, now>>

\* main.py 502-520: the progress row selected for the module, or the defaults
get_training_modules_progress_any_employee(records, employee_id, m) ==
    LET progress == {p \in records : p.training_module_id = m}
    IN  IF progress = {}
        THEN [id |-> m, status |-> "pending", progress_percentage |-> 0,
              started_at |-> None, completed_at |-> None]
        ELSE LET p == CHOOSE q \in progress : TRUE
             IN  [id |-> m, status |-> p.status,
                  progress_percentage |-> p.progress_percentage,
                  started_at |-> p.started_at, completed_at |-> p.completed_at]

get_training_modules_progress(records, employee_id, m) ==
    LET progress == {p \in records :
                       p.employee_id = employee_id /\ p.training_module_id = m}
    IN  IF progress = {}
        THEN [id |-> m, status |-> "pending", progress_percentage |-> 0,
              started_at |-> None, completed_at |-> None]
        ELSE LET p == CHOOSE q \in progress : TRUE
             IN  [id |-> m, status |-> p.status,
                  progress_percentage |-> p.progress_percentage,
                  started_at |-> p.started_at, completed_at |-> p.completed_at]

\* main.py 484-540 with a handler that stores the default progress it reports
GetTrainingModules_get_or_create(caller, name, role) ==
    LET gate == Gate(name, role, caller)
        modules == {m \in DOMAIN training_modules : training_modules[m].is_active}
        missing == {m \in modules :
                      ~\E p \in employee_training :
                          p.employee_id = caller /\ p.training_module_id = m}
    IN  IF AccessDenied(gate)
        THEN /\ last' = Forbidden("get_training_modules", caller, gate, <<>>)
             /\ UNCHANGED <<auth, users, tasks, training_modules, employee_training, assignments, documents, files, inflight, now>>
        ELSE IF lower(role) = S_employee
        THEN /\ employee_training' = employee_training \cup
                    {EmployeeTrainingModel(caller, m) : m \in missing}
             /\ last' = Response("get_training_modules", caller, gate, 200,
                                 "progress", <<>>,
                                 {get_training_modules_progress(
                                      employee_training', caller, m) : m \in modules})
             /\ UNCHANGED <<auth, users, tasks, training_modules, assignments, documents, files, inflight, now>>
        ELSE /\ last' = Response("get_training_modules", caller, gate, 200,
                                 "modules", <<>>, {[id |-> m] : m \in modules})
             /\ UNCHANGED <<auth, users, tasks, training_modules, employee_training, assignments, documents, files, inflight, now>>

\* main.py 484-540
GetTrainingModules(caller, name, role) ==
    LET gate == Gate(name, role, caller)
        modules == {m \in DOMAIN training_modules : training_modules[m].is_active}
    IN  /\ last' =
              IF AccessDenied(gate)
              THEN Forbidden("get_training_modules", caller, gate, <<>>)
              ELSE IF lower(role) = S_employee
              THEN Response("get_training_modules", caller, gate, 200, "progress",
                            <<>>, {get_training_modules_progress(
                                      employee_training, caller, m) : m \in modules})
              ELSE Response("get_training_modules", caller, gate, 200, "modules",
                            <<>>, {[id |-> m] : m \in modules})
        /\ UNCHANGED <<auth, users, tasks, training_modules, employee_training, assignments, documents, files, inflight, now>>

\* main.py 176-211: the response to current_user, the row that
\* get_current_user returned and whose primary key is caller
get_all_employees(caller, current_user, name, role) ==
    LET gate == IF verify_user_access(name, role, current_user)
                THEN "allow" ELSE "deny"
        employees == {u \in DOMAIN users : users[u].role = UserRole_EMPLOYEE}
        total(u) == Cardinality({a \in DOMAIN assignments :
                                   assignments[a].employee_id = u})
        completed(u) == Cardinality({a \in DOMAIN assignments :
                                       /\ assignments[a].employee_id = u
                                       /\ assignments[a].status = TaskStatus_COMPLETED})
    IN  IF ~require_role(UserRole_HR, current_user)
        THEN Forbidden("get_all_employees", caller, "skipped", <<>>)
        ELSE IF AccessDenied(gate)
        THEN Forbidden("get_all_employees", caller, gate, <<>>)
        ELSE Response("get_all_employees", caller, gate, 200, "employees",
                      <<>>,
                      {[id |-> u, name |-> users[u].name,
                        email |-> users[u].email,
                        is_active |-> users[u].is_active,
                        total_tasks |-> total(u),
                        completed_tasks |-> completed(u),
                        \* completed / total * 100, its whole part
                        completion_rate |->
                            IF total(u) > 0
                            THEN (completed(u) * 100) \div total(u)
                            ELSE 0] : u \in employees})

GetAllEmployees(caller, name, role) ==
    /\ last' = get_all_employees(caller, users[caller], name, role)
    /\ UNCHANGED <<auth, users, tasks, training_modules, employee_training, assignments, documents, files, inflight, now>>

\* SQL LIKE: % matches any run of characters, _ any one character
RECURSIVE like(_, _)
like(pattern, text) ==
    IF pattern = <<>> THEN text = <<>>
    ELSE IF Head(pattern) = 37
    THEN like(Tail(pattern), text) \/ (text # <<>> /\ like(pattern, Tail(text)))
    ELSE /\ text # <<>>
         /\ (Head(pattern) = 95 \/ Head(pattern) = Head(text))
         /\ like(Tail(pattern), Tail(text))

\* column.ilike(pattern): LIKE without regard to letter case
ilike(text, pattern) == like(lower(pattern), lower(text))

\* main.py 227-231: WHERE name ILIKE '%employee_name%' AND role = EMPLOYEE
manage_employee_select(us, employee_name) ==
    {u \in DOMAIN us :
        /\ ilike(us[u].name, <<37>> \o employee_name \o <<37>>)
        /\ us[u].role = UserRole_EMPLOYEE}

\* main.py 214-272
ManageEmployee(caller, name, role, employee_name) ==
    LET args == <<employee_name>>
        gate == Gate(name, role, caller)
        found == manage_employee_select(users, employee_name)
        employee == CHOOSE u \in found : TRUE
    IN  /\ last' =
              IF ~require_role(UserRole_HR, users[caller])
              THEN Forbidden("manage_employee", caller, "skipped", args)
              ELSE IF AccessDenied(gate)
              THEN Forbidden("manage_employee", caller, gate, args)
              ELSE IF found = {}
              THEN Response("manage_employee", caller, gate, 404,
                            "Employee not found", args, {})
              ELSE IF Cardinality(found) > 1
              THEN \* MultipleResultsFound out of scalar_one_or_none()
                   Response("manage_employee", caller, gate, 500,
                            "Internal Server Error", args, {})
              ELSE Response("manage_employee", caller, gate, 200, "employee",
                            args,
                            [employee |->
                                 [id |-> employee, name |-> users[employee].name,
                                  email |-> users[employee].email,
                                  is_active |-> users[employee].is_active],
                             tasks |->
                                 {[id |-> a, task_id |-> assignments[a].task_id,
                                   status |-> assignments[a].status,
                                   completed_at |-> assignments[a].completed_at] :
                                  a \in {x \in DOMAIN assignments :
                                           assignments[x].employee_id = employee}},
                             documents |->
                                 {[id |-> d,
                                   document_type |-> documents[d].document_type,
                                   original_filename |->
                                       documents[d].original_filename,
                                   verification_status |->
                                       documents[d].verification_status] :
                                  d \in {x \in DOMAIN documents :
                                           documents[x].employee_id = employee}}])
        /\ UNCHANGED <<auth, users, tasks, training_modules, employee_training, assignments, documents, files, inflight, now>>

\* ------------------------------------------------------------------- spec
\* every handler under /{name}/{role}/, each request kind with one choice of its
\* form fields and every choice of caller and request path (the clock, which
\* only complete_task reads, advances in SpecTasks)
Next ==
    \/ \E caller \in CurrentUsers, pc \in PathClaims :
          \/ AssignTaskCheck(caller, pc[1], pc[2], "e1", 101)
          \/ CompleteTask(caller, pc[1], pc[2], 1)
          \/ \E document_type \in DocumentTypeInputs :
                UploadDocument(caller, pc[1], pc[2], document_type, "cv.pdf",
                               "bytesA", None, <<"ok", "ok">>)
          \/ GetTasks(caller, pc[1], pc[2])
          \/ GetDocuments(caller, pc[1], pc[2])
          \/ GetDashboard(caller, pc[1], pc[2])
          \/ GetTrainingModules(caller, pc[1], pc[2])
    \/ \E r \in inflight : AssignTaskCommit(r)

Spec == Init /\ [][Next]_vars

\* the task lifecycle alone: assign_task, complete_task and the task listings
NextTasks ==
    \/ Tick
    \/ \E caller \in CurrentUsers, pc \in PathClaims :
          \/ \E employee_id \in EmployeeIdInputs, task_id \in TaskIdInputs :
                AssignTaskCheck(caller, pc[1], pc[2], employee_id, task_id)
          \/ \E assignment_id \in AssignmentIdInputs :
                CompleteTask(caller, pc[1], pc[2], assignment_id)
          \/ GetTasks(caller, pc[1], pc[2])
          \/ GetDashboard(caller, pc[1], pc[2])
    \/ \E r \in inflight : AssignTaskCommit(r)

SpecTasks == Init /\ [][NextTasks]_vars

\* the document lifecycle alone: upload_document and the document listing
NextDocuments ==
    \E caller \in CurrentUsers, pc \in PathClaims :
        \/ \E document_type \in DocumentTypeInputs, filename \in FilenameInputs,
              content \in ContentInputs, task_id \in OptionalTaskIdInputs,
              outcome \in UploadOutcomes :
              UploadDocument(caller, pc[1], pc[2], document_type, filename,
                             content, task_id, outcome)
        \/ GetDocuments(caller, pc[1], pc[2])
        \/ GetTrainingModules(caller, pc[1], pc[2])

SpecDocuments == Init /\ [][NextDocuments]_vars

\* ------------------------------------------------------------------ tokens
\* security.py 10: ACCESS_TOKEN_EXPIRE_MINUTES = int(os.getenv(..., 30))
ACCESS_TOKEN_EXPIRE_MINUTES == 30

\* jose.jwt.encode(payload, key, algorithm): the claims and their signature
\* under the key; the signature binds the key and the claims
jwt_sign(claims, key) == <<key, claims>>
jwt_encode(claims, key) == [claims |-> claims, signature |-> jwt_sign(claims, key)]

\* security.create_access_token(subject, extra_claims), called at time t in a
\* process whose SECRET_KEY is key
create_access_token_no_claims(subject, extra_claims, t, key) ==
    jwt_encode(("exp" :> (t + ACCESS_TOKEN_EXPIRE_MINUTES)) @@ ("sub" :> subject),
               key)

create_access_token(subject, extra_claims, t, key) ==
    LET payload == extra_claims @@ ("sub" :> subject)
        expire == t + ACCESS_TOKEN_EXPIRE_MINUTES
    IN  jwt_encode(("exp" :> expire) @@ payload, key)

JWTError(what) == [ok |-> FALSE, error |-> what, claims |-> Empty]

\* security.decode_token(token) = jose.jwt.decode(token, SECRET_KEY, ...), called
\* at time t: the signature is verified, then the exp claim against the clock
decode_token_no_expiry(token, t, key) ==
    IF token.signature # jwt_sign(token.claims, key)
    THEN JWTError("Signature verification failed.")
    ELSE [ok |-> TRUE, error |-> "", claims |-> token.claims]

decode_token(token, t, key) ==
    IF token.signature # jwt_sign(token.claims, key)
    THEN JWTError("Signature verification failed.")
    ELSE IF "exp" \in DOMAIN token.claims /\ token.claims["exp"] < t
    THEN JWTError("Signature has expired.")
    ELSE [ok |-> TRUE, error |-> "", claims |-> token.claims]

\* deps.get_current_user 30-43: the active user the subject names
get_current_user_lookup_any(user_id) ==
    {u \in DOMAIN users : u = user_id}

get_current_user_lookup(user_id) ==
    {u \in DOMAIN users : u = user_id /\ users[u].is_active}

\* inputs of the token operations
SubjectInputs == {"e1", "ghost"}
RoleClaimInputs == {UserRole_HR, UserRole_EMPLOYEE}
KeyInputs == {SECRET_KEY_default, "rotated-secret-key"}
ClockSteps == {25}

\* a token is issued: the record keeps, next to the token the client holds,
\* what it was issued for
IssueToken(subject, role_claim) ==
    LET token == create_access_token(subject, "role" :> role_claim, now, secret_key)
    IN  /\ Cardinality(tokens) < MaxTokens
        /\ tokens' = tokens \cup
              {[jwt |-> token, sub |-> subject, role |-> role_claim,
                iat |-> now, key |-> secret_key]}
        /\ last' = Response("create_access_token", "none", "skipped", 200, "",
                            <<subject, role_claim>>, {token})
        /\ UNCHANGED <<users, tasks, training_modules, employee_training,
                       assignments, documents, files, inflight, now, secret_key,
                       registering>>

\* a client has its token validated
DecodeToken(token) ==
    LET payload == decode_token(token, now, secret_key)
    IN  /\ last' = Response("decode_token", "none", "skipped",
                            IF payload.ok THEN 200 ELSE 401, payload.error,
                            <<token>>, payload.claims)
        /\ UNCHANGED <<auth, users, tasks, training_modules, employee_training,
                       assignments, documents, files, inflight, now>>

\* deps.get_current_user(credentials, session) with the role of the returned
\* row taken from the token's role claim
get_current_user_role_from_claim(token, t, key) ==
    LET payload == decode_token(token, t, key)
        user_id == IF "sub" \in DOMAIN payload.claims
                   THEN payload.claims["sub"] ELSE ""
        user == get_current_user_lookup(user_id)
    IN  IF ~payload.ok
        THEN [status |-> 401, detail |-> "Invalid or expired token", user |-> {}]
        ELSE IF user_id = "" \/ user = {}
        THEN [status |-> 401, detail |-> "Unauthorized", user |-> {}]
        ELSE [status |-> 200, detail |-> "",
              user |-> {[id |-> u,
                         row |-> [users[u] EXCEPT !.role = payload.claims["role"]]] :
                        u \in user}]

\* deps.get_current_user(credentials, session), called at time t in a process
\* whose SECRET_KEY is key: the 401 it raises or the users row it returns
get_current_user(token, t, key) ==
    LET payload == decode_token(token, t, key)
        user_id == IF "sub" \in DOMAIN payload.claims
                   THEN payload.claims["sub"] ELSE ""
        user == get_current_user_lookup(user_id)
    IN  IF ~payload.ok
        THEN [status |-> 401, detail |-> "Invalid or expired token", user |-> {}]
        ELSE IF user_id = "" \/ user = {}
        THEN [status |-> 401, detail |-> "Unauthorized", user |-> {}]
        ELSE [status |-> 200, detail |-> "",
              user |-> {[id |-> u, row |-> users[u]] : u \in user}]

\* a request whose only dependency is get_current_user
GetCurrentUser(token) ==
    LET current == get_current_user(token, now, secret_key)
        ids == {x.id : x \in current.user}
    IN  /\ last' =
              IF current.status # 200
              THEN Response("get_current_user", "none", "skipped", current.status,
                            current.detail, <<token>>, {})
              ELSE Response("get_current_user", CHOOSE u \in ids : TRUE,
                            "skipped", 200, "", <<token>>, ids)
        /\ UNCHANGED <<auth, users, tasks, training_modules, employee_training,
                       assignments, documents, files, inflight, now>>

\* the clock advances between requests
Advance(minutes) ==
    /\ now + minutes <= MaxHours * 60
    /\ now' = now + minutes
    /\ UNCHANGED <<auth, users, tasks, training_modules, employee_training,
                   assignments, documents, files, inflight, last>>

\* the process is restarted with another SECRET_KEY in its environment
Restart(key) ==
    /\ key # secret_key
    /\ secret_key' = key
    /\ UNCHANGED <<users, tasks, training_modules, employee_training,
                   assignments, documents, files, inflight, now, tokens,
                   registering, last>>

\* the Token Service alone: issue, validate, authenticate, clock and key
NextTokens ==
    \/ \E subject \in SubjectInputs, role_claim \in RoleClaimInputs :
          IssueToken(subject, role_claim)
    \/ \E i \in tokens : DecodeToken(i.jwt)
    \/ \E i \in tokens : GetCurrentUser(i.jwt)
    \/ \E minutes \in ClockSteps : Advance(minutes)
    \/ \E key \in KeyInputs : Restart(key)

\* the database before create_sample_data.py has assigned the tasks
InitUnassigned == Init /\ assignments = Empty

SpecTokens == InitUnassigned /\ [][NextTokens]_vars

\* ------------------------------------------------------------------- login
\* routers/auth.py 30-36: SELECT ... WHERE email = data.email AND is_active
login_lookup_inactive_too(email) ==
    {u \in DOMAIN users : users[u].email = email}

login_lookup(email) ==
    {u \in DOMAIN users : users[u].email = email /\ users[u].is_active}

EmailInputs ==
    {"jane.employee@company.com", "john.hr@company.com", "new@company.com"}
PasswordInputs == {"password123", "wrong"}

\* routers/auth.py login(data, session)
Login(email, password) ==
    LET found == login_lookup(email)
        user == CHOOSE u \in found : TRUE
        token == create_access_token(user, "role" :> users[user].role, now,
                                     secret_key)
    IN  /\ IF \/ found = {}
              \/ ~verify_password(password, users[user].password_hash)
           THEN /\ last' = Response("login", "none", "skipped", 401,
                                    "Invalid credentials", <<email, password>>, {})
                /\ UNCHANGED tokens
           ELSE /\ Cardinality(tokens) < MaxTokens
                /\ tokens' = tokens \cup
                      {[jwt |-> token, sub |-> user, role |-> users[user].role,
                        iat |-> now, key |-> secret_key]}
                /\ last' = Response("login", user, "skipped", 200, "bearer",
                                    <<email, password>>, {token})
        /\ UNCHANGED <<users, tasks, training_modules, employee_training,
                       assignments, documents, files, inflight, now, secret_key,
                       registering>>

\* the account-administration path (routers/employees.py update_employee, HR
\* only): the active flag of a user is set
UpdateEmployee(caller, employee_id, is_active) ==
    /\ IF ~require_role(UserRole_HR, users[caller])
       THEN /\ last' = Forbidden("update_employee", caller, "skipped",
                                 <<employee_id, is_active>>)
            /\ UNCHANGED users
       ELSE IF employee_id \notin DOMAIN users
       THEN /\ last' = Response("update_employee", caller, "skipped", 404,
                                "Employee not found", <<employee_id, is_active>>,
                                {})
            /\ UNCHANGED users
       ELSE /\ users' = [users EXCEPT ![employee_id].is_active = is_active]
            /\ last' = Response("update_employee", caller, "skipped", 200, "",
                                <<employee_id, is_active>>, {})
    /\ UNCHANGED <<auth, tasks, training_modules, employee_training, assignments,
                   documents, files, inflight, now>>

\* sessions: login, the requests that present a token, and deactivation
NextSessions ==
    \/ \E email \in EmailInputs, password \in PasswordInputs :
          Login(email, password)
    \/ IssueToken("ghost", UserRole_EMPLOYEE)
    \/ \E i \in tokens : GetCurrentUser(i.jwt)
    \/ \E caller \in CurrentUsers, employee_id \in {"e1", "h1"},
          is_active \in BOOLEAN :
          UpdateEmployee(caller, employee_id, is_active)
    \/ \E minutes \in ClockSteps : Advance(minutes)

SpecSessions == InitUnassigned /\ [][NextSessions]_vars

\* ------------------------------------------------- requests with a token
\* GET /{name}/{role}/employees with a bearer token: get_current_user resolves
\* the token, then require_role and the handler see the row it returned
EmployeesRequest(token, name, role) ==
    LET args == <<token, name, role>>
        current == get_current_user(token, now, secret_key)
        current_user == CHOOSE x \in current.user : TRUE
    IN  /\ last' =
              IF current.status # 200
              THEN Response("get_all_employees", "none", "skipped",
                            current.status, current.detail, args, {})
              ELSE [get_all_employees(current_user.id, current_user.row,
                                      name, role) EXCEPT !.args = args]
        /\ UNCHANGED <<auth, users, tasks, training_modules, employee_training,
                       assignments, documents, files, inflight, now>>

\* tokens for the HR user and for an employee with either role claim, presented
\* under every request path while the clock advances
ClaimSubjects == {"h1", "e1"}

NextClaims ==
    \/ \E subject \in ClaimSubjects, role_claim \in RoleClaimInputs :
          IssueToken(subject, role_claim)
    \/ \E i \in tokens, pc \in PathClaims : EmployeesRequest(i.jwt, pc[1], pc[2])
    \/ \E minutes \in ClockSteps : Advance(minutes)

SpecClaims == InitUnassigned /\ [][NextClaims]_vars

\* ---------------------------------------------------------------- register
\* models/user.py 18: email: str = Field(unique=True, ...)
users_email_unconstrained(us, row) == TRUE

users_email_unique(us, row) ==
    \A u \in DOMAIN us : us[u].email # row.email

\* SELECT ... WHERE email = data.email (routers/auth.py 58-62, main.py 97-105)
register_existing(us, email) ==
    \E u \in DOMAIN us : us[u].email = email

\* the uuid4 primary key of the next users row
NewUserIds == <<"n1", "n2", "n3", "n4">>
Registered == DOMAIN users \ DOMAIN SampleUsers
NewUserId == NewUserIds[Cardinality(Registered) + 1]

FreeRegisterSlot ==
    CHOOSE n \in 1..MaxRegistrations : \A r \in registering : r.slot # n

\* the request bodies (UserCreateSchema)
RegisterEmailInputs ==
    {"jane.employee@company.com", "new@company.com", "New@company.com"}
RegisterInputs ==
    {[name |-> S_Jane, email |-> e, password |-> "password123", role |-> r,
      is_active |-> a] :
        e \in RegisterEmailInputs, r \in {UserRole_EMPLOYEE}, a \in BOOLEAN}

\* the users table after session.add(user) and session.commit()
users_insert(us, id, row) ==
    [u \in DOMAIN us \cup {id} |-> IF u = id THEN row ELSE us[u]]

\* routers/auth.py register, up to and including its existence check
RegisterCheck(data) ==
    /\ IF register_existing(users, data.email)
       THEN /\ last' = Response("register", "none", "skipped", 400,
                                "Email already registered", <<data.email>>, {})
            /\ UNCHANGED registering
       ELSE /\ Cardinality(Registered) + Cardinality(registering)
                  < MaxRegistrations
            /\ registering' = registering \cup
                  {[slot |-> FreeRegisterSlot, handler |-> "register",
                    caller |-> "none", data |-> data]}
            /\ last' = Response("register", "none", "skipped", 0,
                                "awaiting commit", <<data.email>>, {})
    /\ UNCHANGED <<users, tasks, training_modules, employee_training,
                   assignments, documents, files, inflight, now, tokens,
                   secret_key>>

\* main.py register_user (HR only), up to and including its existence check
RegisterUserCheck(caller, user_data) ==
    /\ IF ~require_role(UserRole_HR, users[caller])
       THEN /\ last' = Forbidden("register_user", caller, "skipped",
                                 <<user_data.email>>)
            /\ UNCHANGED registering
       ELSE IF register_existing(users, user_data.email)
       THEN /\ last' = Response("register_user", caller, "skipped", 400,
                                "Email already registered", <<user_data.email>>,
                                {})
            /\ UNCHANGED registering
       ELSE /\ Cardinality(Registered) + Cardinality(registering)
                  < MaxRegistrations
            /\ registering' = registering \cup
                  {[slot |-> FreeRegisterSlot, handler |-> "register_user",
                    caller |-> caller, data |-> user_data]}
            /\ last' = Response("register_user", caller, "skipped", 0,
                                "awaiting commit", <<user_data.email>>, {})
    /\ UNCHANGED <<users, tasks, training_modules, employee_training,
                   assignments, documents, files, inflight, now, tokens,
                   secret_key>>

\* either handler from the construction of the row to the response:
\* routers/auth.py 64-76 (is_active=True) and main.py 107-121
RegisterCommit(r) ==
    LET row == UserModel(r.data.name, r.data.email,
                         get_password_hash(r.data.password), r.data.role,
                         IF r.handler = "register" THEN TRUE
                         ELSE r.data.is_active)
    IN  /\ registering' = registering \ {r}
        /\ IF users_email_unique(users, row)
           THEN /\ users' = users_insert(users, NewUserId, row)
                /\ last' = Response(r.handler, r.caller, "skipped", 200,
                                    IF r.handler = "register"
                                    THEN "Registered successfully"
                                    ELSE "User created successfully",
                                    <<r.data.email>>, {NewUserId})
           ELSE \* IntegrityError out of session.commit()
                /\ UNCHANGED users
                /\ last' = Response(r.handler, r.caller, "skipped", 500,
                                    "Internal Server Error", <<r.data.email>>, {})
        /\ UNCHANGED <<tasks, training_modules, employee_training, assignments,
                       documents, files, inflight, now, tokens, secret_key>>

\* registration alone: both register handlers and their commits
NextRegister ==
    \/ \E data \in {d \in RegisterInputs : d.is_active} : RegisterCheck(data)
    \/ \E caller \in CurrentUsers, user_data \in RegisterInputs :
          RegisterUserCheck(caller, user_data)
    \/ \E r \in registering : RegisterCommit(r)

SpecRegister == InitUnassigned /\ [][NextRegister]_vars

\* login next to the registration of a new user by the HR user, active or not
\* (main.py register_user stores the is_active of the request body)
LoginRegistrations ==
    {d \in RegisterInputs : d.email = "new@company.com"}

NextLogin ==
    \/ \E email \in EmailInputs, password \in PasswordInputs :
          Login(email, password)
    \/ \E user_data \in LoginRegistrations : RegisterUserCheck("h1", user_data)
    \/ \E r \in registering : RegisterCommit(r)

SpecLogin == InitUnassigned /\ [][NextLogin]_vars

\* the validation of the declared type alone: uploads of one employee under
\* their own path, with every spelling of the declared type
DeclaredTypeInputs == {S_AADHAR, S_Resume, S_other, S_passport, S_aadhaar}
UploadTypeCallers == {"e1"}

NextUploadTypes ==
    \E caller \in UploadTypeCallers \cap CurrentUsers,
       document_type \in DeclaredTypeInputs, outcome \in UploadOutcomes :
        UploadDocument(caller, users[caller].name, users[caller].role,
                       document_type, "cv.pdf", "bytesA", None, outcome)

SpecUploadTypes == Init /\ [][NextUploadTypes]_vars

\* the authorization policy alone: verify_user_access on every caller and claim
NameInputs == {S_Jane, S_jane, S_JANE, S_Bob, S_bob, S_John, S_nobody}
RoleInputs == {S_employee, S_Employee, S_hr, S_HR, S_admin}

Authorize(caller, name, role) ==
    /\ last' = Response("verify_user_access", caller, Gate(name, role, caller),
                        200, "", <<name, role>>, {})
    /\ UNCHANGED <<auth, users, tasks, training_modules, employee_training, assignments,
                   documents, files, inflight, now>>

NextAuthorize ==
    \E caller \in CurrentUsers, name \in NameInputs, role \in RoleInputs :
        Authorize(caller, name, role)

SpecAuthorize == Init /\ [][NextAuthorize]_vars

\* ------------------------------------------------------- training progress
\* the values the progress columns read by get_training_modules (main.py 516-519)
\* take: the defaults of a fresh row, a module under way, a module finished
TrainingProgressValues ==
    { [status |-> "pending", progress_percentage |-> 0,
       started_at |-> None, completed_at |-> None],
      [status |-> "in_progress", progress_percentage |-> 40,
       started_at |-> <<0>>, completed_at |-> None],
      [status |-> "completed", progress_percentage |-> 100,
       started_at |-> <<0>>, completed_at |-> <<1>>] }

\* a row of employee_training with the given progress columns
EmployeeTrainingRow(employee_id, training_module_id, v) ==
    [employee_id |-> employee_id, training_module_id |-> training_module_id,
     status |-> v.status, progress_percentage |-> v.progress_percentage,
     started_at |-> v.started_at, completed_at |-> v.completed_at]

\* contents of the employee_training table: for every employee and module no
\* row or one row (create_sample_data.py 227-234 adds one row per pair)
TrainingTables ==
    {rows \in SUBSET {EmployeeTrainingRow(e, m, v) :
                         e \in {"e1", "e2"}, m \in DOMAIN SampleTrainingModules,
                         v \in TrainingProgressValues} :
        \A p, q \in rows :
            (p.employee_id = q.employee_id
                /\ p.training_module_id = q.training_module_id) => p = q}

\* the database with any training catalogue and any progress table
InitTraining ==
    /\ users = SampleUsers
    /\ tasks = SampleTasks
    /\ assignments = Empty
    /\ training_modules \in [DOMAIN SampleTrainingModules -> [is_active : BOOLEAN]]
    /\ employee_training \in TrainingTables
    /\ documents = Empty
    /\ files = Empty
    /\ inflight = {}
    /\ now = 0
    /\ tokens = {}
    /\ secret_key = SECRET_KEY_default
    /\ registering = {}
    /\ last = NoRequest

NextTraining ==
    \E caller \in CurrentUsers, pc \in PathClaims :
        GetTrainingModules(caller, pc[1], pc[2])

SpecTraining == InitTraining /\ [][NextTraining]_vars

\* ------------------------------------------------- employees of one name
\* a second employee with the display name of a seeded employee is registered
\* by the HR user; both are assigned tasks, upload documents and list
SameNameRegistration ==
    [name |-> S_Jane, email |-> "new@company.com", password |-> "password123",
     role |-> UserRole_EMPLOYEE, is_active |-> TRUE]

IsolationPaths ==
    {<<S_JANE, S_Employee>>, <<S_bob, S_employee>>, <<S_John, S_hr>>}

NextIsolation ==
    \/ RegisterUserCheck("h1", SameNameRegistration)
    \/ \E r \in registering : RegisterCommit(r)
    \/ \E employee_id \in {"e1", "n1"} :
          AssignTaskCheck("h1", S_John, S_hr, employee_id, 101)
    \/ \E r \in inflight : AssignTaskCommit(r)
    \/ \E caller \in CurrentUsers \ {"h1", "e2"} :
          UploadDocument(caller, S_JANE, S_Employee, S_AADHAR, "cv.pdf",
                         "bytesA", None, <<"ok", "ok">>)
    \/ \E caller \in CurrentUsers, pc \in IsolationPaths :
          \/ GetTasks(caller, pc[1], pc[2])
          \/ GetDocuments(caller, pc[1], pc[2])

SpecIsolation == InitUnassigned /\ [][NextIsolation]_vars

\* ---------------------------------------------------------- the listings
\* the employee_name of /{name}/{role}/manage/{employee_name}: part of one
\* employee's name in another letter case, a letter of an employee's and of the
\* HR user's name, a text in no name, and the wildcard for any one character
S_o == <<111>>
S_underscore == <<95>>
EmployeeNameInputs == {S_jane, S_o, S_nobody, S_underscore}

\* every read-only handler of main.py for every caller and request path, next
\* to one assign, one complete and one upload that change what they read
NextListings ==
    \/ AssignTaskCheck("h1", S_John, S_hr, "e1", 101)
    \/ \E r \in inflight : AssignTaskCommit(r)
    \/ CompleteTask("e1", S_Jane, S_employee, 1)
    \/ UploadDocument("e1", S_Jane, S_employee, S_AADHAR, "cv.pdf", "bytesA",
                      None, <<"ok", "ok">>)
    \/ \E caller \in CurrentUsers, pc \in PathClaims :
          \/ GetTasks(caller, pc[1], pc[2])
          \/ GetDocuments(caller, pc[1], pc[2])
          \/ GetDashboard(caller, pc[1], pc[2])
          \/ GetTrainingModules(caller, pc[1], pc[2])
          \/ GetAllEmployees(caller, pc[1], pc[2])
          \/ \E employee_name \in EmployeeNameInputs :
                ManageEmployee(caller, pc[1], pc[2], employee_name)

SpecListings == Init /\ [][NextListings]_vars

\* ============================================================== properties
\* error kinds of the specification, as the responses of the handlers
IsForbidden(resp) == resp.status = 403
IsNotFound(resp) == resp.status = 404
IsConflict(resp) == resp.status = 400 /\ resp.detail = "Task already assigned"
IsSuccess(resp) == resp.status = 200

\* the response in last' was produced by this step (and is not a leftover)
NewResponse ==
    \/ last'.op # last.op
    \/ last'.caller # last.caller
    \/ last'.gate # last.gate
    \/ last'.status # last.status
    \/ last'.detail # last.detail
    \/ last'.args # last.args

\* two texts equal up to the case of their ASCII letters
SameLetter(a, b) ==
    \/ a = b
    \/ a \in 65..90 /\ b = a + 32
    \/ b \in 65..90 /\ a = b + 32
SameIgnoringCase(s, t) ==
    Len(s) = Len(t) /\ \A i \in 1..Len(s) : SameLetter(s[i], t[i])

\* C1: in every reachable state, interleaved assign requests included, there is
\* at most one assignment per (employee, task) pair
C1_AtMostOneAssignmentPerPair ==
    \A a, b \in DOMAIN assignments :
        (assignments[a].employee_id = assignments[b].employee_id
         /\ assignments[a].task_id = assignments[b].task_id) => a = b

\* two assign requests for one pair both passed the existence check; the second
\* insert was refused by the store
C1_Witness ==
    /\ last.op = "assign_task"
    /\ last.status = 500
    /\ Cardinality(AssignmentsFor(assignments, last.args[1], last.args[2])) = 1

\* a step in which assign_task answered (or passed) its existence check for
\* the pair (e, t)
AssignCheckStep(e, t) ==
    /\ last'.op = "assign_task"
    /\ last'.gate = "allow"
    /\ last'.args = <<e, t>>
    /\ inflight \subseteq inflight'
    /\ (inflight' # inflight \/ NewResponse)

\* a step in which an assign request for (e, t) commits right after its own
\* existence check, no other assign request being in flight
AssignSequentialCommitStep(e, t) ==
    /\ last.op = "assign_task"
    /\ last.status = 0
    /\ last.args = <<e, t>>
    /\ Cardinality(inflight) = 1
    /\ inflight' = {}

\* C2: of two sequential assign(E, T) calls by an HR caller the first creates the
\* one assignment of (E, T) and the second fails with Conflict and changes nothing
C2_SecondAssignConflicts ==
    [][\A e \in EmployeeIdInputs, t \in TaskIdInputs :
          LET before == AssignmentsFor(assignments, e, t)
              after == AssignmentsFor(assignments', e, t)
          IN  /\ AssignCheckStep(e, t) =>
                    /\ users[last'.caller].role = UserRole_HR
                    /\ IsConflict(last') <=> before # {}
                    /\ before # {} =>
                          /\ assignments' = assignments
                          /\ inflight' = inflight
                          /\ Cardinality(after) = 1
                    /\ before = {} => last'.status = 0 /\ inflight' # inflight
              /\ AssignSequentialCommitStep(e, t) =>
                    /\ before = {}
                    /\ Cardinality(after) = 1
                    /\ IsSuccess(last')
                    /\ Len(assignments') = Len(assignments) + 1
      ]_vars

\* an assignment made by assign_task (the sample data holds none for an HR
\* employee id) was requested a second time and the request got Conflict
C2_Witness ==
    /\ last.op = "assign_task"
    /\ IsConflict(last)
    /\ last.args = <<"h1", 101>>
    /\ Cardinality(AssignmentsFor(assignments, "h1", 101)) = 1

\* a step in which complete_task answered a request for assignment a
CompleteStep(a) ==
    /\ last'.op = "complete_task"
    /\ last'.args = <<a>>
    /\ (NewResponse \/ assignments' # assignments)

\* C3 as stated: complete on an existing assignment succeeds if and only if the
\* caller's id equals the assignment's employee id
C3_Original ==
    [][\A a \in DOMAIN assignments :
          CompleteStep(a) =>
             (IsSuccess(last') <=> assignments[a].employee_id = last'.caller)
      ]_vars

\* C3 amended: complete on an existing assignment succeeds, and sets the status
\* to COMPLETED, if and only if the gate allows the request path and the caller's
\* id equals the assignment's employee id; a call by any other identity, HR
\* included, changes no assignment
C3_CompleteOnlyByOwner ==
    [][\A a \in DOMAIN assignments :
          CompleteStep(a) =>
             LET owner == assignments[a].employee_id = last'.caller
             IN  /\ IsSuccess(last') <=> (last'.gate = "allow" /\ owner)
                 /\ IsSuccess(last') =>
                       assignments'[a].status = TaskStatus_COMPLETED
                 /\ ~owner => assignments' = assignments
                 /\ \A b \in DOMAIN assignments :
                       b # a => assignments'[b] = assignments[b]
      ]_vars

\* the owner completed its assignment
C3_Witness ==
    /\ last.op = "complete_task"
    /\ IsSuccess(last)
    /\ last.caller = "e1"
    /\ assignments[last.args[1]].employee_id = "e1"
    /\ assignments[last.args[1]].status = TaskStatus_COMPLETED

\* C4: complete fails with NotFound only when no assignment has the given id;
\* when the assignment exists and its employee differs from the caller the
\* failure is Forbidden
C4_ForbiddenForNonOwner ==
    [][\A a \in AssignmentIdInputs :
          CompleteStep(a) =>
             /\ IsNotFound(last') => a \notin DOMAIN assignments
             /\ (a \in DOMAIN assignments
                 /\ assignments[a].employee_id # last'.caller) => IsForbidden(last')
      ]_vars

\* C5: complete by the owner on a COMPLETED assignment is a no-op or fails with
\* Conflict, and never changes the recorded completion timestamp
C5_RecompleteKeepsTimestamp ==
    [][\A a \in DOMAIN assignments :
          (CompleteStep(a)
           /\ assignments[a].status = TaskStatus_COMPLETED
           /\ assignments[a].employee_id = last'.caller
           /\ last'.gate = "allow") =>
             /\ (IsSuccess(last') /\ assignments' = assignments)
                \/ (last'.status = 400 /\ assignments' = assignments)
             /\ assignments'[a].completed_at = assignments[a].completed_at
      ]_vars

\* C6: once an assignment is COMPLETED it is COMPLETED in every later state
C6_CompletedIsTerminal ==
    [][\A a \in DOMAIN assignments :
          assignments[a].status = TaskStatus_COMPLETED =>
             /\ a \in DOMAIN assignments'
             /\ assignments'[a].status = TaskStatus_COMPLETED
      ]_vars

\* an assignment was completed and then another caller's complete request for
\* it was answered
C6_Witness ==
    \E a \in DOMAIN assignments :
        /\ assignments[a].status = TaskStatus_COMPLETED
        /\ last.op = "complete_task"
        /\ last.args = <<a>>
        /\ IsNotFound(last)

\* C7: when the authorization gate denies a request, the operation fails with
\* Forbidden and users, tasks, assignments, documents, training records, stored
\* bytes and the requests in flight are all unchanged
C7_DeniedRequestHasNoEffect ==
    [][last'.gate = "deny" =>
          /\ IsForbidden(last')
          /\ last'.body = {}
          /\ db' = db
          /\ inflight' = inflight
      ]_vars

\* an upload by an employee under another employee's name was denied while a
\* document of an earlier upload exists
C7_Witness ==
    /\ last.op = "upload_document"
    /\ last.gate = "deny"
    /\ IsForbidden(last)
    /\ users[last.caller].role = UserRole_EMPLOYEE
    /\ Len(documents) = 1

\* C8: authorize returns true for every HR caller, whatever name and role the
\* request claims
C8_HrAlwaysAllowed ==
    (last.op = "verify_user_access" /\ users[last.caller].role = UserRole_HR)
        => last.gate = "allow"

\* an HR caller claimed the name of no user and a role that is no role
C8_Witness ==
    /\ last.op = "verify_user_access"
    /\ users[last.caller].role = UserRole_HR
    /\ last.args = <<S_nobody, S_admin>>
    /\ last.gate = "allow"

C10_DocumentBytesComplete ==
    \A d \in DOMAIN documents :
        /\ documents[d].file_path \in DOMAIN files
        /\ files[documents[d].file_path].complete

\* a step in which upload_document answered a request
UploadStep ==
    /\ last'.op = "upload_document"
    /\ (NewResponse \/ files' # files \/ documents' # documents)

IsInvalidInput(resp) == resp.status = 400 /\ resp.detail = "Invalid document type"
IsStorageFailure(resp) == resp.status = 500

\* the stored bytes that no Document record references
OrphanedBytes(docs, fs) ==
    {p \in DOMAIN fs : \A d \in DOMAIN docs : docs[d].file_path # p}

\* C11: when an upload fails (the byte-stream write fails partway, or the
\* metadata write fails after the bytes were stored), after the operation
\* returns no stored bytes exist that no Document record references
C11_FailedUploadLeavesNoOrphan ==
    [][(UploadStep /\ IsStorageFailure(last')) =>
          OrphanedBytes(documents', files') = {}
      ]_vars

\* C12: two distinct successful uploads get distinct storage references, and a
\* later upload never replaces the bytes backing an earlier Document record
C12_DistinctStorageReferences ==
    [][(UploadStep /\ IsSuccess(last')) =>
          LET new == documents'[Len(documents')]
          IN  \A d \in DOMAIN documents :
                 /\ documents[d].file_path # new.file_path
                 /\ files'[documents[d].file_path] = files[documents[d].file_path]
      ]_vars

\* the canonical spellings of a declared type
CanonicalTypes == {S_aadhar, S_resume, S_other}
KnownType(declared) == \E c \in CanonicalTypes : SameIgnoringCase(declared, c)

\* C13: upload accepts the declared type if and only if its lower-cased value
\* is one of aadhar, resume, other, and then records the document under that
\* lower-case type; for any other declared type it fails with InvalidInput and
\* writes neither bytes nor a Document record
C13_DeclaredTypeValidated ==
    [][(UploadStep /\ last'.gate = "allow") =>
          LET declared == last'.args[1]
          IN  /\ IsInvalidInput(last') <=> ~KnownType(declared)
              /\ ~KnownType(declared) =>
                    /\ documents' = documents
                    /\ files' = files
              /\ IsSuccess(last') =>
                    /\ Len(documents') = Len(documents) + 1
                    /\ documents'[Len(documents')].document_type \in CanonicalTypes
                    /\ SameIgnoringCase(documents'[Len(documents')].document_type,
                                        declared)
      ]_vars

\* "AADHAR" was accepted and recorded, as a second document, under "aadhar"
C13_Witness ==
    /\ last.op = "upload_document"
    /\ IsSuccess(last)
    /\ last.args[1] = S_AADHAR
    /\ Len(documents) = 2
    /\ documents[2].document_type = S_aadhar

\* C14: in every reachable state every Document record is owned by an existing
\* User whose role is EMPLOYEE
C14_DocumentOwnerIsEmployee ==
    \A d \in DOMAIN documents :
        /\ documents[d].employee_id \in DOMAIN users
        /\ users[documents[d].employee_id].role = UserRole_EMPLOYEE

\* C15: in every reachable state every TaskAssignment links an existing User
\* whose role is EMPLOYEE to an existing Task
C15_AssignmentLinksEmployeeToTask ==
    \A a \in DOMAIN assignments :
        /\ assignments[a].employee_id \in DOMAIN users
        /\ users[assignments[a].employee_id].role = UserRole_EMPLOYEE
        /\ assignments[a].task_id \in tasks

\* C16: a Document is created with verification status PENDING, no verifier and
\* no verified-at timestamp, and no operation of an EMPLOYEE caller (indeed no
\* operation at all) changes the verification of an existing document
C16_VerificationStaysPending ==
    [][/\ \A d \in DOMAIN documents :
             /\ d \in DOMAIN documents'
             /\ documents'[d].verification_status = documents[d].verification_status
             /\ documents'[d].verified_by = documents[d].verified_by
             /\ documents'[d].verified_at = documents[d].verified_at
       /\ \A d \in DOMAIN documents' \ DOMAIN documents :
             /\ documents'[d].verification_status = VerificationStatus_PENDING
             /\ documents'[d].verified_by = None
             /\ documents'[d].verified_at = None
      ]_vars

\* an employee uploaded a document and then uploaded a second one: both are
\* PENDING with no verifier
C16_Witness ==
    /\ Len(documents) = 2
    /\ last.op = "upload_document"
    /\ IsSuccess(last)
    /\ users[last.caller].role = UserRole_EMPLOYEE
    /\ documents[1].employee_id = last.caller
    /\ \A d \in DOMAIN documents :
          /\ documents[d].verification_status = VerificationStatus_PENDING
          /\ documents[d].verified_by = None

\* a step in which the token was validated (decode_token) or presented with a
\* request (get_current_user)
DecodeStep(token) ==
    /\ last'.op = "decode_token"
    /\ last'.args = <<token>>
    /\ NewResponse
AuthenticateStep(token) ==
    /\ last'.op = "get_current_user"
    /\ last'.args = <<token>>
    /\ NewResponse

IsUnauthenticated(resp) == resp.status = 401

\* the absolute expiry of an issued token: issue time + configured lifetime
ExpiryOf(i) == i.iat + 30

\* C17: for every subject id s and role claim r, validate(issue(s, r)) performed
\* before the token's expiry under the same signing key returns exactly
\* subject s and role r
C17_TokenRoundTrip ==
    [][\A i \in tokens :
          (DecodeStep(i.jwt) /\ now < ExpiryOf(i) /\ secret_key = i.key) =>
             /\ last'.status = 200
             /\ {"sub", "role"} \subseteq DOMAIN last'.body
             /\ last'.body["sub"] = i.sub
             /\ last'.body["role"] = i.role
      ]_vars

\* a token issued for a subject that names no user, with role claim hr, under
\* a rotated key, was validated under that key
C17_Witness ==
    /\ last.op = "decode_token"
    /\ last.status = 200
    /\ last.body["sub"] = "ghost"
    /\ last.body["role"] = UserRole_HR
    /\ secret_key = "rotated-secret-key"
    /\ last.args[1].signature[1] = secret_key

\* C18: a token's expiry is the absolute time issue-time + configured lifetime,
\* fixed at issuance; at every time after that expiry validate fails and
\* authenticateRequest yields Unauthenticated, and a token signed under a
\* different key than the current one is likewise rejected
C18_ExpiredOrForeignTokenRejected ==
    [][\A i \in tokens :
          LET stale == now > ExpiryOf(i) \/ secret_key # i.key
          IN  /\ i.jwt.claims["exp"] = ExpiryOf(i)
              /\ i \in tokens'
              /\ (DecodeStep(i.jwt) /\ stale) =>
                    last'.status = 401 /\ last'.body = Empty
              /\ (AuthenticateStep(i.jwt) /\ stale) =>
                    IsUnauthenticated(last') /\ last'.caller = "none"
      ]_vars

\* a token of the active user e1, signed under the current key, was presented
\* after its expiry and the request was rejected
C18_Witness ==
    /\ last.op = "get_current_user"
    /\ IsUnauthenticated(last)
    /\ \E i \in tokens :
          /\ last.args = <<i.jwt>>
          /\ i.sub = "e1"
          /\ i.key = secret_key
          /\ now > ExpiryOf(i)

\* a step in which login answered a request
LoginStep ==
    /\ last'.op = "login"
    /\ (NewResponse \/ tokens' # tokens)

\* C19: once a user's is_active is false, login with that user's correct
\* credentials fails, and every request bearing a still-unexpired token issued
\* to that user is rejected as Unauthenticated; likewise for a token whose
\* subject names no existing user
C19_InactiveUserIsUnauthenticated ==
    [][/\ \A i \in tokens :
             (AuthenticateStep(i.jwt)
              /\ (i.sub \notin DOMAIN users \/ ~users[i.sub].is_active)) =>
                IsUnauthenticated(last') /\ last'.caller = "none"
       /\ \A u \in DOMAIN users :
             (LoginStep /\ last'.args[1] = users[u].email /\ ~users[u].is_active) =>
                /\ IsUnauthenticated(last')
                /\ tokens' = tokens
      ]_vars

\* e1 logged in, was deactivated, and then presented the token, which is
\* neither expired nor signed under another key: the request was rejected
C19_Witness ==
    /\ last.op = "get_current_user"
    /\ IsUnauthenticated(last)
    /\ ~users["e1"].is_active
    /\ \E i \in tokens :
          /\ last.args = <<i.jwt>>
          /\ i.sub = "e1"
          /\ i.key = secret_key
          /\ now < ExpiryOf(i)

\* a step in which a register handler answered (or passed) its existence check
RegisterCheckStep ==
    /\ last'.op \in {"register", "register_user"}
    /\ registering \subseteq registering'
    /\ (registering' # registering \/ NewResponse)

\* C20: in every reachable state no two User records share an email; register
\* with an already-registered email fails and leaves the set of users
\* unchanged; two interleaved register requests for one email never result in
\* two users with that email
C20_EmailsUnique ==
    /\ [](\A u, v \in DOMAIN users : users[u].email = users[v].email => u = v)
    /\ [][(RegisterCheckStep /\ last'.status # 403
           /\ \E u \in DOMAIN users : users[u].email = last'.args[1]) =>
             /\ last'.status = 400
             /\ last'.detail = "Email already registered"
             /\ users' = users
             /\ registering' = registering
         ]_vars

\* two register requests for one new email both passed the existence check;
\* the first insert created the user and the second was refused by the store
C20_Witness ==
    /\ last.op \in {"register", "register_user"}
    /\ last.status = 500
    /\ last.args = <<"new@company.com">>
    /\ Cardinality({u \in DOMAIN users : users[u].email = "new@company.com"}) = 1


\* --------------------------------------------------- C21: users are framed
\* a request of the task, document or training lifecycle was answered
LifecycleOps ==
    {"assign_task", "complete_task", "upload_document", "get_tasks",
     "get_documents", "get_dashboard", "get_training_modules"}

\* C21: every task, document and training lifecycle operation (assign, complete,
\* upload, every listing, the dashboard) leaves the role and the is_active flag
\* of every User record unchanged, whether it succeeds or fails
C21_LifecycleKeepsRoleAndActive ==
    [][/\ last'.op \in LifecycleOps
       /\ DOMAIN users' = DOMAIN users
       /\ \A u \in DOMAIN users :
             /\ users'[u].role = users[u].role
             /\ users'[u].is_active = users[u].is_active
      ]_vars

\* an employee's complete request succeeded after an HR assign succeeded and a
\* document was stored, and every user still has the seeded role and flag
C21_Witness ==
    /\ last.op = "complete_task"
    /\ IsSuccess(last)
    /\ Len(documents) >= 1
    /\ \E a \in DOMAIN assignments :
          /\ assignments[a].assigned_by = "h1"
          /\ assignments[a].status = TaskStatus_COMPLETED
    /\ \A u \in DOMAIN SampleUsers :
          /\ users[u].role = SampleUsers[u].role
          /\ users[u].is_active = SampleUsers[u].is_active

\* ----------------------------------------- C22: modules merged with progress
TrainingStep ==
    /\ last'.op = "get_training_modules"
    /\ NewResponse

\* the progress columns a fresh row would hold
NoProgress ==
    [status |-> "pending", progress_percentage |-> 0,
     started_at |-> None, completed_at |-> None]

\* the entry for module m carries exactly the progress columns v
EntryCarries(entry, m, v) ==
    /\ entry.id = m
    /\ entry.status = v.status
    /\ entry.progress_percentage = v.progress_percentage
    /\ entry.started_at = v.started_at
    /\ entry.completed_at = v.completed_at

\* C22: the training listing of an employee E returns exactly one entry for
\* every active training module and none for an inactive module; the entry
\* carries E's own progress record for the module if there is one and otherwise
\* status pending, progress 0 and null timestamps; a missing record is no error
C22_ModulesMergedWithOwnProgress ==
    [][(/\ TrainingStep
        /\ users[last'.caller].role = UserRole_EMPLOYEE
        /\ last'.gate = "allow") =>
          /\ IsSuccess(last')
          /\ last'.detail = "progress"
          /\ {entry.id : entry \in last'.body} =
                 {m \in DOMAIN training_modules : training_modules[m].is_active}
          /\ \A m \in DOMAIN training_modules :
                Cardinality({entry \in last'.body : entry.id = m}) <= 1
          /\ \A entry \in last'.body :
                LET own == {p \in employee_training :
                              /\ p.employee_id = last'.caller
                              /\ p.training_module_id = entry.id}
                IN  IF own = {}
                    THEN EntryCarries(entry, entry.id, NoProgress)
                    ELSE \E p \in own : EntryCarries(entry, entry.id, p)
      ]_vars

\* Jane listed the training modules while both modules are active, she has a
\* record of a finished module and none for the other module, and Bob has a
\* record under way for the module Jane has no record of
C22_Witness ==
    /\ last.op = "get_training_modules"
    /\ last.caller = "e1"
    /\ IsSuccess(last)
    /\ \A m \in DOMAIN training_modules : training_modules[m].is_active
    /\ \E p \in employee_training :
          /\ p.employee_id = "e1" /\ p.training_module_id = 201
          /\ p.progress_percentage = 100
    /\ ~\E p \in employee_training :
           p.employee_id = "e1" /\ p.training_module_id = 202
    /\ \E p \in employee_training :
          /\ p.employee_id = "e2" /\ p.training_module_id = 202
          /\ p.status = "in_progress"
    /\ \E entry \in last.body :
          entry.id = 202 /\ EntryCarries(entry, 202, NoProgress)
    /\ \E entry \in last.body :
          entry.id = 201 /\ entry.progress_percentage = 100

\* ------------------------------------- C23: the assignment in both listings
TasksStep ==
    /\ last'.op = "get_tasks"
    /\ NewResponse
    /\ IsSuccess(last')

\* the listing entry shows assignment a as it is stored, with its assigner
ShowsAssignment(entry, a) ==
    /\ "assignment_id" \in DOMAIN entry
    /\ entry.assignment_id = a
    /\ entry.task_id = assignments[a].task_id
    /\ entry.status = assignments[a].status
    /\ entry.completed_at = assignments[a].completed_at

\* C23: after the HR user H assigned task T1 to employee E1 and E1 completed it,
\* the task listing of E1 shows exactly one assignment for T1, COMPLETED with a
\* completion timestamp, and the task listing of an HR caller shows that same
\* assignment record with assigned_by = H
C23_CompletedAssignmentListedWithAssigner ==
    [][\A a \in DOMAIN assignments :
          (/\ TasksStep
           /\ assignments[a].status = TaskStatus_COMPLETED
           /\ assignments[a].assigned_by = "h1"
           /\ assignments[a].employee_id = "e1") =>
             /\ last'.caller = "e1" =>
                   /\ Cardinality({entry \in last'.body :
                          entry.task_id = assignments[a].task_id}) = 1
                   /\ \E entry \in last'.body :
                         /\ ShowsAssignment(entry, a)
                         /\ entry.status = TaskStatus_COMPLETED
                         /\ entry.completed_at # None
             /\ users[last'.caller].role = UserRole_HR =>
                   \E entry \in last'.body :
                       /\ ShowsAssignment(entry, a)
                       /\ "assigned_by" \in DOMAIN entry
                       /\ entry.assigned_by = "h1"
      ]_vars

\* ------------------------------------ C24: an employee sees its own records
ListingStep ==
    /\ last'.op \in {"get_tasks", "get_documents"}
    /\ NewResponse
    /\ IsSuccess(last')

\* C24: for every state and every name and role of the request path, each task
\* assignment and each document returned to an EMPLOYEE caller has the caller's
\* own user id as its employee id, also when another employee has the same
\* display name: the listing is exactly the caller's own records
C24_EmployeeSeesOnlyOwnRecords ==
    [][(ListingStep /\ users[last'.caller].role = UserRole_EMPLOYEE) =>
          IF last'.op = "get_documents"
          THEN /\ \A entry \in last'.body :
                     /\ entry.employee_id = last'.caller
                     /\ entry.id \in DOMAIN documents
                     /\ documents[entry.id].employee_id = last'.caller
               /\ {entry.id : entry \in last'.body} =
                     {d \in DOMAIN documents :
                        documents[d].employee_id = last'.caller}
          ELSE /\ \A entry \in last'.body :
                     /\ entry.assignment_id \in DOMAIN assignments
                     /\ assignments[entry.assignment_id].employee_id = last'.caller
                     /\ entry.task_id = assignments[entry.assignment_id].task_id
                     /\ entry.status = assignments[entry.assignment_id].status
               /\ {entry.assignment_id : entry \in last'.body} =
                     {a \in DOMAIN assignments :
                        /\ assignments[a].employee_id = last'.caller
                        /\ assignments[a].task_id \in tasks}
      ]_vars

\* Jane listed her documents and got one, while a second active employee named
\* Jane has a document and an assignment of their own
C24_Witness ==
    /\ last.op = "get_documents"
    /\ last.caller = "e1"
    /\ IsSuccess(last)
    /\ Cardinality(last.body) = 1
    /\ "n1" \in DOMAIN users
    /\ users["n1"].name = users["e1"].name
    /\ users["n1"].is_active
    /\ \E d \in DOMAIN documents : documents[d].employee_id = "n1"
    /\ \E d \in DOMAIN documents : documents[d].employee_id = "e1"
    /\ \E a \in DOMAIN assignments : assignments[a].employee_id = "n1"

\* ------------------------------------- C25: an HR caller sees all documents
DocumentsListingStep ==
    /\ last'.op = "get_documents"
    /\ NewResponse

\* C25: an HR caller listing documents sees all Document records of all
\* employees, for every name and role of the request path that the gate allows
\* for HR: the scope follows the caller's role, not the role string of the path
C25_HrListsAllDocuments ==
    [][(/\ DocumentsListingStep
        /\ users[last'.caller].role = UserRole_HR
        /\ last'.gate = "allow") =>
          /\ IsSuccess(last')
          /\ {entry.id : entry \in last'.body} = DOMAIN documents
      ]_vars

\* ------------------------------ C26: one outcome for every rejected token
RejectedBy(resp) ==
    resp.op = "get_current_user" /\ IsUnauthenticated(resp)

\* C26: authenticateRequest does not tell why a token was rejected: a malformed
\* token, a token with a wrong signature, an expired token and a validly signed
\* token whose subject is missing, unknown or inactive all get the identical
\* Unauthenticated outcome, the same status and the same detail
C26_RejectionsAreIndistinguishable ==
    [][(RejectedBy(last) /\ RejectedBy(last')) =>
          /\ last'.status = last.status
          /\ last'.detail = last.detail
      ]_vars

\* ------------------------------- C28: assignments are created by HR only
AssignStep ==
    /\ last'.op = "assign_task"
    /\ (NewResponse \/ assignments' # assignments \/ inflight' # inflight)

\* C28: task assignments are created only by HR: a successful assign by the HR
\* caller H adds exactly one assignment, PENDING, with null completion
\* timestamp and assigned_by = H, and leaves every other assignment unchanged;
\* an assign request of an EMPLOYEE caller fails with Forbidden and creates
\* nothing; so in every reachable state assigned_by names an HR user
C28_AssignmentsCreatedByHrOnly ==
    /\ [](\A a \in DOMAIN assignments :
             /\ assignments[a].assigned_by \in DOMAIN users
             /\ users[assignments[a].assigned_by].role = UserRole_HR)
    /\ [][/\ Len(assignments') # Len(assignments) =>
                (AssignStep /\ IsSuccess(last'))
          /\ (AssignStep /\ IsSuccess(last')) =>
                /\ users[last'.caller].role = UserRole_HR
                /\ Len(assignments') = Len(assignments) + 1
                /\ \A a \in DOMAIN assignments : assignments'[a] = assignments[a]
                /\ assignments'[Len(assignments')] =
                      [employee_id |-> last'.args[1], task_id |-> last'.args[2],
                       assigned_by |-> last'.caller,
                       status |-> TaskStatus_PENDING, completed_at |-> None]
          /\ (AssignStep /\ users[last'.caller].role = UserRole_EMPLOYEE) =>
                /\ IsForbidden(last')
                /\ assignments' = assignments
                /\ inflight' = inflight
         ]_vars

\* the assign of task 101 to Jane by the HR user succeeded and its row is the
\* newest assignment, pending and not completed
C28_Witness ==
    /\ last.op = "assign_task"
    /\ IsSuccess(last)
    /\ last.caller = "h1"
    /\ last.args = <<"e1", 101>>
    /\ Len(assignments) >= 1
    /\ assignments[Len(assignments)] =
          [employee_id |-> "e1", task_id |-> 101, assigned_by |-> "h1",
           status |-> TaskStatus_PENDING, completed_at |-> None]

\* --------------------------- C29: completion timestamp and status together
CompleteTaskStep ==
    /\ last'.op = "complete_task"
    /\ (NewResponse \/ assignments' # assignments)

\* C29: in every reachable state the completion timestamp of an assignment is
\* null if and only if its status is PENDING; a successful complete sets status
\* COMPLETED and the completion timestamp together, and a failed complete
\* changes neither
C29_CompletedAtIffCompleted ==
    /\ [](\A a \in DOMAIN assignments :
             /\ assignments[a].status \in {TaskStatus_PENDING, TaskStatus_COMPLETED}
             /\ (assignments[a].completed_at = None) <=>
                    (assignments[a].status = TaskStatus_PENDING))
    /\ [][CompleteTaskStep =>
            IF IsSuccess(last')
            THEN LET a == last'.args[1]
                 IN  /\ a \in DOMAIN assignments
                     /\ DOMAIN assignments' = DOMAIN assignments
                     /\ assignments'[a].status = TaskStatus_COMPLETED
                     /\ assignments'[a].completed_at = <<now>>
                     /\ \A b \in DOMAIN assignments \ {a} :
                           assignments'[b] = assignments[b]
            ELSE assignments' = assignments
         ]_vars

\* Bob's complete request for Jane's assignment failed after Jane had completed
\* it at minute 1, while Bob's own assignment is pending without a timestamp
C29_Witness ==
    /\ last.op = "complete_task"
    /\ last.caller = "e2"
    /\ IsNotFound(last)
    /\ \E a \in DOMAIN assignments :
          /\ last.args = <<a>>
          /\ assignments[a].employee_id = "e1"
          /\ assignments[a].status = TaskStatus_COMPLETED
          /\ assignments[a].completed_at = <<1>>
    /\ \E b \in DOMAIN assignments :
          /\ assignments[b].employee_id = "e2"
          /\ assignments[b].status = TaskStatus_PENDING
          /\ assignments[b].completed_at = None

\* ------------------------------------------ C30: the listings are read-only
ListingOps ==
    {"get_tasks", "get_documents", "get_training_modules", "get_dashboard",
     "get_all_employees", "manage_employee"}

\* C30: the listing operations (tasks, documents, training modules, dashboard,
\* employees, manage employee) are read-only: for every caller and every
\* outcome they leave users, tasks, assignments, documents, training progress
\* and stored bytes unchanged
C30_ListingsAreReadOnly ==
    [][last'.op \in ListingOps =>
          /\ users' = users
          /\ tasks' = tasks
          /\ assignments' = assignments
          /\ documents' = documents
          /\ training_modules' = training_modules
          /\ employee_training' = employee_training
          /\ files' = files
          /\ inflight' = inflight
      ]_vars

\* the HR user looked Jane up by part of her name and got her record with her
\* completed assignment and her document, which are all still stored
C30_Witness ==
    /\ last.op = "manage_employee"
    /\ IsSuccess(last)
    /\ last.args = <<S_jane>>
    /\ last.body.employee.id = "e1"
    /\ \E entry \in last.body.tasks :
          /\ entry.status = TaskStatus_COMPLETED
          /\ assignments[entry.id].status = TaskStatus_COMPLETED
    /\ \E entry \in last.body.documents :
          documents[entry.id].employee_id = "e1"
    /\ employee_training = {}

\* ------------------------------------------- C31: registering is HR-only
\* C31: a User record (in particular one with role HR) is created by register
\* only when the request carries a valid token of an active HR user; an
\* unauthenticated caller or an EMPLOYEE caller never causes a user to be
\* created
C31_UsersCreatedByHrOnly ==
    [][DOMAIN users' # DOMAIN users =>
          /\ last'.op \in {"register", "register_user"}
          /\ last'.caller \in DOMAIN users
          /\ users[last'.caller].role = UserRole_HR
          /\ users[last'.caller].is_active
      ]_vars

\* -------------------------------- C32: the token's role claim decides nothing
\* the token is validly signed and not expired now
ValidNow(token) == decode_token(token, now, secret_key).ok

\* C32: authorization depends only on the subject id the token carries and on
\* the role stored for that user, not on the role claim inside the token: two
\* validly signed tokens with the same subject and different role claims
\* resolve to the same user row, and a request with one gets the same
\* allow/deny outcome and the same response as the same request with the other
C32_RoleClaimDecidesNothing ==
    /\ [](\A i, j \in tokens :
             (i.sub = j.sub /\ ValidNow(i.jwt) /\ ValidNow(j.jwt)) =>
                get_current_user(i.jwt, now, secret_key) =
                    get_current_user(j.jwt, now, secret_key))
    /\ [][(/\ last.op = "get_all_employees"
           /\ last'.op = "get_all_employees"
           /\ last.args[1].claims["sub"] = last'.args[1].claims["sub"]
           /\ last.args[2] = last'.args[2]
           /\ last.args[3] = last'.args[3]
           /\ ValidNow(last.args[1])
           /\ ValidNow(last'.args[1])) =>
             /\ last'.status = last.status
             /\ last'.gate = last.gate
             /\ last'.caller = last.caller
             /\ last'.detail = last.detail
             /\ last'.body = last.body
         ]_vars

\* the HR user presented a token whose role claim is employee and got the
\* employee list, and Jane presented a token whose role claim is hr before:
\* both tokens are still valid
C32_Witness ==
    /\ last.op = "get_all_employees"
    /\ last.caller = "h1"
    /\ IsSuccess(last)
    /\ last.args[1].claims["role"] = UserRole_EMPLOYEE
    /\ ValidNow(last.args[1])
    /\ \E i \in tokens :
          /\ i.sub = "h1"
          /\ i.role = UserRole_HR
          /\ ValidNow(i.jwt)

\* ------------------------------------------------ C33: who login lets in
\* the users a login with this email and password is good for
LoginGoodFor(email, password) ==
    {u \in DOMAIN users :
        /\ users[u].email = email
        /\ users[u].is_active
        /\ users[u].password_hash = get_password_hash(password)}

\* C33: login issues a token only when a user with the given email exists, is
\* active and the password verifies against the stored hash; the token then
\* carries that user's id as subject and that user's role as role claim;
\* unknown email, inactive user and wrong password all give the same 401
\* outcome and issue no token
C33_LoginIssuesTokenOnlyForActiveUser ==
    [][LoginStep =>
          LET good == LoginGoodFor(last'.args[1], last'.args[2])
          IN  IF good # {}
              THEN /\ IsSuccess(last')
                   /\ last'.caller \in good
                   /\ \E token \in last'.body :
                         /\ last'.body = {token}
                         /\ token.claims["sub"] = last'.caller
                         /\ token.claims["role"] = users[last'.caller].role
                         /\ token.claims["exp"] = now + ACCESS_TOKEN_EXPIRE_MINUTES
                         /\ token.signature = jwt_sign(token.claims, secret_key)
                         /\ \E i \in tokens' : i.jwt = token
                   /\ \A i \in tokens' \ tokens : i.jwt \in last'.body
              ELSE /\ last'.status = 401
                   /\ last'.detail = "Invalid credentials"
                   /\ last'.body = {}
                   /\ tokens' = tokens
      ]_vars

\* a login with the right password of a registered but inactive user was
\* refused, after Jane had logged in and got her token
C33_Witness ==
    /\ last.op = "login"
    /\ last.status = 401
    /\ last.args = <<"new@company.com", "password123">>
    /\ \E u \in DOMAIN users :
          /\ users[u].email = "new@company.com"
          /\ ~users[u].is_active
          /\ verify_password("password123", users[u].password_hash)
    /\ \E i \in tokens :
          /\ i.sub = "e1"
          /\ i.jwt.claims["role"] = UserRole_EMPLOYEE

\* --------------------------------- C34: the outcomes of manage_employee
ManageStep ==
    /\ last'.op = "manage_employee"
    /\ NewResponse

\* C34: manage_employee for an HR caller has exactly two outcomes: NotFound
\* when no EMPLOYEE user matches the name, and otherwise one employee's record
\* with only that employee's tasks and documents; also when the name pattern
\* matches more than one employee it ends in no other error
C34_ManageEmployeeFoundOrNotFound ==
    [][(ManageStep /\ users[last'.caller].role = UserRole_HR) =>
          \/ /\ IsNotFound(last')
             /\ manage_employee_select(users, last'.args[1]) = {}
          \/ /\ IsSuccess(last')
             /\ last'.body.employee.id \in
                    manage_employee_select(users, last'.args[1])
             /\ \A entry \in last'.body.tasks :
                   assignments[entry.id].employee_id = last'.body.employee.id
             /\ \A entry \in last'.body.documents :
                   documents[entry.id].employee_id = last'.body.employee.id
      ]_vars
====
